---- MODULE Spec2Model ----
(***************************************************************************)
(* Volume lifecycle of the ceph-csi plugins.                               *)
(*                                                                         *)
(*  - the rbd controller server (CreateVolume / DeleteVolume), its         *)
(*    in-memory index rbdVolumes, the persisted volume-info files and the  *)
(*    backend images;                                                      *)
(*  - the cephfs node server (NodeStageVolume / NodeUnstageVolume /        *)
(*    NodePublishVolume / NodeUnpublishVolume), the node cache, the mount  *)
(*    table, the directories and the dedicated ceph users.                 *)
(*                                                                         *)
(* Every handler is split at its calls to the backend, the mounter and the *)
(* metadata store: each such call is one step, so that handlers running on *)
(* different goroutines interleave between them.                           *)
(***************************************************************************)
EXTENDS Integers, FiniteSets, Sequences, TLC

\* ------------------------------------------------------------------------
\* Program constants and bounds
\* ------------------------------------------------------------------------

\* const oneGB
oneGB == 1073741824

\* number of UUIDs uuid.NewUUID() hands out before the model stops creating
MaxUUID == 3

\* goroutines the gRPC runtime serves requests on
Procs == {1, 2}

\* request names
Names == {"pvc-1", "pvc-2"}

\* volume IDs of the node requests
Vols == {"vol-1", "vol-2"}

\* the id of the admin credentials in the node stage secrets
AdminID == "admin"

\* capacity_range.required_bytes values (besides an absent capacity range)
ReqBytes == {oneGB \div 2, oneGB + (oneGB \div 2)}

VARIABLES
    rbdVolumes,     \* controller: in-memory index, volumeID -> rbdVolume
    volInfo,        \* controller: persisted volume-info files, volumeID -> rbdVolume
    rbdImages,      \* backend: names of the rbd images that exist
    nextUUID,       \* the next value uuid.NewUUID() returns
    ctl,            \* controller: per goroutine, the request being handled
    live,           \* history: name -> volume of the last successful creation, until deleted
    returned,       \* history: volume IDs returned by a successful creation
    deletedNames,   \* history: names of the volumes DeleteVolume has deleted
    nodeCache,      \* node: the node cache, volumeID -> nodeCacheEntry
    mounted,        \* node: the paths that are mount points
    dirs,           \* node: the mount-point directories that exist
    cephUsers,      \* backend: volume IDs whose dedicated ceph user exists
    nd,             \* node: per goroutine, the request being handled
    owed            \* history: volumes whose unstage failed at the user deletion

ctlVars == <<rbdVolumes, volInfo, rbdImages, nextUUID, ctl>>

histVars == <<live, returned, deletedNames>>

nodeVars == <<nodeCache, mounted, dirs, cephUsers, nd, owed>>

\* ------------------------------------------------------------------------
\* Controller server (package rbd)
\* ------------------------------------------------------------------------

NoID == <<>>

NoVol == [VolName |-> "", VolID |-> NoID, VolSize |-> 0]

NoReq == [name |-> "", capsNil |-> FALSE, paramsOK |-> TRUE, hasRange |-> FALSE,
          bytes |-> 0, volumeId |-> NoID, caps |-> <<>>]

NoRes == [code |-> "none", msg |-> "", id |-> NoID, cap |-> 0]

\* a goroutine that handles no request
IdleCtl == [pc |-> "idle", op |-> "none", req |-> NoReq, rbdVol |-> NoVol,
            found |-> FALSE, res |-> NoRes,
            calledCreate |-> FALSE, nPersist |-> 0, nIndex |-> 0,
            supported |-> FALSE]

\* the CreateVolumeRequests the orchestrator sends
CreateRequests ==
    {[NoReq EXCEPT !.name = n, !.hasRange = TRUE, !.bytes = b] : n \in Names, b \in ReqBytes}
    \cup {[NoReq EXCEPT !.name = n] : n \in Names}
    \cup {[NoReq EXCEPT !.name = n, !.paramsOK = FALSE] : n \in Names}
    \cup {[NoReq EXCEPT !.name = n, !.capsNil = TRUE] : n \in Names}
    \cup {NoReq}

\* volumeID := "csi-rbd-" + uniqueID
NewVolumeID_Reused(uniqueID) == <<"csi-rbd-", 1>>

NewVolumeID(uniqueID) == <<"csi-rbd-", uniqueID>>

VolumeIDs == {NewVolumeID(u) : u \in 1..MaxUUID}

\* the DeleteVolumeRequests the orchestrator sends
DeleteRequests == {[NoReq EXCEPT !.volumeId = id] : id \in VolumeIDs}

\* req.GetCapacityRange().GetRequiredBytes(): 0 on an absent capacity range
RequiredBytes(r) == IF r.hasRange THEN r.bytes ELSE 0

\* cs.Driver.ValidateControllerServiceRequest(CREATE_DELETE_VOLUME): the driver
\* is constructed with the capability
ValidateControllerServiceRequest == TRUE

\* getRBDVolumeByName: the volumes of the in-memory index that carry the name
VolumesByName(name) ==
    {rbdVolumes[id] : id \in {i \in DOMAIN rbdVolumes : rbdVolumes[i].VolName = name}}

\* exVol.VolSize >= int64(req.GetCapacityRange().GetRequiredBytes())
CompatibleSize_Strict(exVol, r) == exVol.VolSize > RequiredBytes(r)

CompatibleSize(exVol, r) == exVol.VolSize >= RequiredBytes(r)

\* Volume Size - Default is 1 GiB
VolSizeBytes(r) == IF r.hasRange THEN r.bytes ELSE oneGB

OKRes(id, cap) == [code |-> "OK", msg |-> "", id |-> id, cap |-> cap]

ErrRes(code, msg) == [code |-> code, msg |-> msg, id |-> NoID, cap |-> 0]

\* return nil, status.Error(codes.AlreadyExists, "Volume with the same name:
\* ... but with different size already exist")
SizeConflict_Reuse(exVol, r) == OKRes(exVol.VolID, exVol.VolSize)

SizeConflict(exVol, r) == ErrRes("AlreadyExists", "different size")

\* the handler of goroutine p returns res
CtlReturn(p, res) == [ctl[p] EXCEPT !.pc = "done", !.res = res]

\* CreateVolume up to the generation of the volume ID: request validation, the
\* lookup of an existing volume by name, the parsing of the parameters.
CreateVolume_Check(p, r) ==
    /\ ctl[p].pc = "idle"
    /\ LET c == [IdleCtl EXCEPT !.op = "create", !.req = r]
           ex == VolumesByName(r.name)
       IN  IF ~ValidateControllerServiceRequest
             THEN /\ ctl' = [ctl EXCEPT ![p] = [c EXCEPT !.pc = "done",
                                  !.res = ErrRes("InvalidArgument", "invalid create volume req")]]
                  /\ UNCHANGED nextUUID
           ELSE IF r.name = ""
             THEN /\ ctl' = [ctl EXCEPT ![p] = [c EXCEPT !.pc = "done",
                                  !.res = ErrRes("InvalidArgument", "Volume Name cannot be empty")]]
                  /\ UNCHANGED nextUUID
           ELSE IF r.capsNil
             THEN /\ ctl' = [ctl EXCEPT ![p] = [c EXCEPT !.pc = "done",
                                  !.res = ErrRes("InvalidArgument", "Volume Capabilities cannot be empty")]]
                  /\ UNCHANGED nextUUID
           ELSE IF ex # {}
             THEN /\ \E exVol \in ex :
                        ctl' = [ctl EXCEPT ![p] = [c EXCEPT !.pc = "done",
                                  !.res = IF CompatibleSize(exVol, r)
                                            THEN OKRes(exVol.VolID, exVol.VolSize)
                                            ELSE SizeConflict(exVol, r)]]
                  /\ UNCHANGED nextUUID
           ELSE IF ~r.paramsOK
             THEN /\ ctl' = [ctl EXCEPT ![p] = [c EXCEPT !.pc = "done",
                                  !.res = ErrRes("InvalidArgument", "getRBDVolumeOptions")]]
                  /\ UNCHANGED nextUUID
           ELSE /\ nextUUID <= MaxUUID
                /\ ctl' = [ctl EXCEPT ![p] = [c EXCEPT !.pc = "status",
                              !.rbdVol = [VolName |-> r.name,
                                          VolID |-> NewVolumeID(nextUUID),
                                          VolSize |-> VolSizeBytes(r)]]]
                /\ nextUUID' = nextUUID + 1
    /\ UNCHANGED <<rbdVolumes, volInfo, rbdImages>>

\* found, _, _ := rbdStatus(rbdVol, secrets): whether the image exists; the
\* error of the probe is dropped, a failed probe reports found = false.
CreateVolume_Status(p) ==
    /\ ctl[p].pc = "status"
    /\ \E probeOK \in BOOLEAN :
          LET f == probeOK /\ ctl[p].rbdVol.VolName \in rbdImages
          IN  ctl' = [ctl EXCEPT ![p] = [@ EXCEPT !.found = f,
                                    !.pc = IF f THEN "persist" ELSE "create"]]
    /\ UNCHANGED <<rbdVolumes, volInfo, rbdImages, nextUUID>>

\* if !found { createRBDImage(...) }: the backend creates the image, or fails
\* (it fails when an image of that name exists).
CreateVolume_CreateImage(p) ==
    /\ ctl[p].pc = "create"
    /\ \E backendOK \in BOOLEAN :
          IF backendOK /\ ctl[p].rbdVol.VolName \notin rbdImages
            THEN /\ rbdImages' = rbdImages \cup {ctl[p].rbdVol.VolName}
                 /\ ctl' = [ctl EXCEPT ![p] = [@ EXCEPT !.pc = "persist", !.calledCreate = TRUE]]
            ELSE /\ UNCHANGED rbdImages
                 /\ ctl' = [ctl EXCEPT ![p] = [@ EXCEPT !.pc = "done", !.calledCreate = TRUE,
                                !.res = ErrRes("Internal", "createRBDImage")]]
    /\ UNCHANGED <<rbdVolumes, volInfo, nextUUID>>

\* persistVolInfo(volumeID, ..., rbdVol): a failure is logged as a warning and
\* the handler goes on.
CreateVolume_Persist(p) ==
    /\ ctl[p].pc = "persist"
    /\ \E ioOK \in BOOLEAN :
          IF ioOK
            THEN /\ volInfo' = (ctl[p].rbdVol.VolID :> ctl[p].rbdVol) @@ volInfo
                 /\ ctl' = [ctl EXCEPT ![p] = [@ EXCEPT !.pc = "index", !.nPersist = @ + 1]]
            ELSE /\ UNCHANGED volInfo
                 /\ ctl' = [ctl EXCEPT ![p] = [@ EXCEPT !.pc = "index"]]
    /\ UNCHANGED <<rbdVolumes, rbdImages, nextUUID>>

\* rbdVolumes[volumeID] = *rbdVol; return the new volume
CreateVolume_Index(p) ==
    /\ ctl[p].pc = "index"
    /\ rbdVolumes' = (ctl[p].rbdVol.VolID :> ctl[p].rbdVol) @@ rbdVolumes
    /\ ctl' = [ctl EXCEPT ![p] = [@ EXCEPT !.pc = "done", !.nIndex = @ + 1,
                   !.res = OKRes(ctl[p].rbdVol.VolID, ctl[p].rbdVol.VolSize)]]
    /\ UNCHANGED <<volInfo, rbdImages, nextUUID>>

\* if err := loadVolInfo(volumeID, ..., rbdVol); err != nil { return Internal }
LoadErrFatal_Ignored(err) == FALSE

LoadErrFatal(err) == err

\* DeleteVolume up to loadVolInfo: the record is read from the persisted
\* file; a missing file or an I/O failure is an Internal error.
DeleteVolume_Load(p, r) ==
    /\ ctl[p].pc = "idle"
    /\ LET c == [IdleCtl EXCEPT !.op = "delete", !.req = r]
       IN  IF ~ValidateControllerServiceRequest
             THEN ctl' = [ctl EXCEPT ![p] = [c EXCEPT !.pc = "done",
                             !.res = ErrRes("InvalidArgument", "invalid delete volume req")]]
             ELSE \E ioOK \in BOOLEAN :
                    LET ok == ioOK /\ r.volumeId \in DOMAIN volInfo
                    IN  IF LoadErrFatal(~ok)
                          THEN ctl' = [ctl EXCEPT ![p] = [c EXCEPT !.pc = "done",
                                          !.res = ErrRes("Internal", "loadVolInfo")]]
                          ELSE ctl' = [ctl EXCEPT ![p] = [c EXCEPT !.pc = "rmimage",
                                          !.rbdVol = IF ok THEN volInfo[r.volumeId]
                                                     ELSE NoVol]]
    /\ UNCHANGED <<rbdVolumes, volInfo, rbdImages, nextUUID>>

\* if err := deleteRBDImage(...); err != nil { return Internal }
DeleteImageErrFatal_Ignored(err) == FALSE

DeleteImageErrFatal(err) == err

\* deleteRBDImage(rbdVol, secrets): the backend removes the image, or fails
\* (it fails when no image of that name exists).
DeleteVolume_Image(p) ==
    /\ ctl[p].pc = "rmimage"
    /\ \E backendOK \in BOOLEAN :
          LET ok == backendOK /\ ctl[p].rbdVol.VolName \in rbdImages
          IN  /\ rbdImages' = IF ok THEN rbdImages \ {ctl[p].rbdVol.VolName} ELSE rbdImages
              /\ IF DeleteImageErrFatal(~ok)
                   THEN ctl' = [ctl EXCEPT ![p] = CtlReturn(p, ErrRes("Internal", "deleteRBDImage"))]
                   ELSE ctl' = [ctl EXCEPT ![p] = [@ EXCEPT !.pc = "rminfo"]]
    /\ UNCHANGED <<rbdVolumes, volInfo, nextUUID>>

\* deleteVolInfo(volumeID, ...): removes the persisted file, or fails
DeleteVolume_Info(p) ==
    /\ ctl[p].pc = "rminfo"
    /\ \E ioOK \in BOOLEAN :
          IF ioOK /\ ctl[p].req.volumeId \in DOMAIN volInfo
            THEN /\ volInfo' = [i \in DOMAIN volInfo \ {ctl[p].req.volumeId} |-> volInfo[i]]
                 /\ ctl' = [ctl EXCEPT ![p] = [@ EXCEPT !.pc = "rmindex"]]
            ELSE /\ UNCHANGED volInfo
                 /\ ctl' = [ctl EXCEPT ![p] = CtlReturn(p, ErrRes("Internal", "deleteVolInfo"))]
    /\ UNCHANGED <<rbdVolumes, rbdImages, nextUUID>>

\* delete(rbdVolumes, volumeID); return
DeleteVolume_Index(p) ==
    /\ ctl[p].pc = "rmindex"
    /\ rbdVolumes' = [i \in DOMAIN rbdVolumes \ {ctl[p].req.volumeId} |-> rbdVolumes[i]]
    /\ ctl' = [ctl EXCEPT ![p] = CtlReturn(p, OKRes(NoID, 0))]
    /\ UNCHANGED <<volInfo, rbdImages, nextUUID>>

\* longest list of capabilities in a ValidateVolumeCapabilitiesRequest
MaxCaps == 2

\* csi.VolumeCapability_AccessMode_Mode; a capability without an access mode
\* reads as UNKNOWN
AccessModes == {"UNKNOWN", "SINGLE_NODE_WRITER", "SINGLE_NODE_READER_ONLY",
                "MULTI_NODE_MULTI_WRITER"}

\* the lists of capabilities (their access modes) of the requests
CapLists == UNION {[1..n -> AccessModes] : n \in 0..MaxCaps}

\* the ValidateVolumeCapabilitiesRequests the orchestrator sends
ValidateRequests == {[NoReq EXCEPT !.caps = cs] : cs \in CapLists}

\* cap.GetAccessMode().GetMode() != csi.VolumeCapability_AccessMode_SINGLE_NODE_WRITER
ModeSupported_AnySingleNode(mode) == mode \in {"SINGLE_NODE_WRITER", "SINGLE_NODE_READER_ONLY"}

ModeSupported(mode) == mode = "SINGLE_NODE_WRITER"

\* for _, cap := range req.VolumeCapabilities: the first unsupported
\* capability returns Supported: false, the end of the list Supported: true
RECURSIVE SupportedLoop(_)
SupportedLoop(caps) ==
    IF caps = <<>> THEN TRUE
    ELSE IF ~ModeSupported(Head(caps)) THEN FALSE
    ELSE SupportedLoop(Tail(caps))

\* ValidateVolumeCapabilities: the loop over the capabilities, the response
ValidateVolumeCapabilities(p, r) ==
    /\ ctl[p].pc = "idle"
    /\ ctl' = [ctl EXCEPT ![p] = [IdleCtl EXCEPT !.op = "validate", !.req = r,
                   !.pc = "done", !.res = OKRes(NoID, 0),
                   !.supported = SupportedLoop(r.caps)]]
    /\ UNCHANGED <<rbdVolumes, volInfo, rbdImages, nextUUID>>

\* the response is sent; the goroutine is free for the next request
CtlRespond(p) ==
    /\ ctl[p].pc = "done"
    /\ ctl' = [ctl EXCEPT ![p] = IdleCtl]
    /\ UNCHANGED <<rbdVolumes, volInfo, rbdImages, nextUUID>>

\* The controller process dies and is started again: the requests in flight
\* are lost, the index is rebuilt from the persisted files.
CtlCrash ==
    /\ \E p \in Procs : ctl[p].pc \notin {"idle", "done"}
    /\ ctl' = [p \in Procs |-> IdleCtl]
    /\ rbdVolumes' = volInfo
    /\ UNCHANGED <<volInfo, rbdImages, nextUUID>>

CtlInit ==
    /\ rbdVolumes = <<>>
    /\ volInfo = <<>>
    /\ rbdImages = {}
    /\ nextUUID = 1
    /\ ctl = [p \in Procs |-> IdleCtl]
    /\ live = [n \in Names |-> NoVol]
    /\ returned = {}
    /\ deletedNames = {}

\* no request is being handled
CtlQuiet == \A q \in Procs : ctl[q].pc = "idle"

\* history: a creation has returned its new volume
NoteCreated(p) ==
    /\ live' = [live EXCEPT ![ctl[p].rbdVol.VolName] = ctl[p].rbdVol]
    /\ returned' = returned \cup {ctl[p].rbdVol.VolID}
    /\ UNCHANGED deletedNames

\* history: a deletion has returned success
NoteDeleted(p) ==
    /\ live' = [n \in Names |-> IF live[n].VolID = ctl[p].req.volumeId THEN NoVol ELSE live[n]]
    /\ deletedNames' = deletedNames \cup {ctl[p].rbdVol.VolName}
    /\ UNCHANGED returned

\* the steps of a handler after its first, with the history of the results
CtlStep(p) ==
    \/ CreateVolume_Status(p) /\ UNCHANGED <<histVars, nodeVars>>
    \/ CreateVolume_CreateImage(p) /\ UNCHANGED <<histVars, nodeVars>>
    \/ CreateVolume_Persist(p) /\ UNCHANGED <<histVars, nodeVars>>
    \/ CreateVolume_Index(p) /\ NoteCreated(p) /\ UNCHANGED nodeVars
    \/ DeleteVolume_Image(p) /\ UNCHANGED <<histVars, nodeVars>>
    \/ DeleteVolume_Info(p) /\ UNCHANGED <<histVars, nodeVars>>
    \/ DeleteVolume_Index(p) /\ NoteDeleted(p) /\ UNCHANGED nodeVars
    \/ CtlRespond(p) /\ UNCHANGED <<histVars, nodeVars>>

\* the goroutine the requests are handled on when they come one at a time
SeqProcs == {1}

\* requests handled one at a time, in one process lifetime
Next ==
    \/ \E p \in SeqProcs : \E r \in CreateRequests :
          CtlQuiet /\ CreateVolume_Check(p, r) /\ UNCHANGED <<histVars, nodeVars>>
    \/ \E p \in SeqProcs : \E r \in DeleteRequests :
          CtlQuiet /\ DeleteVolume_Load(p, r) /\ UNCHANGED <<histVars, nodeVars>>
    \/ \E p \in SeqProcs : CtlStep(p)

\* requests handled one at a time in one process lifetime, with the
\* ValidateVolumeCapabilities requests
CtlValNext ==
    \/ \E p \in SeqProcs : \E r \in CreateRequests :
          CtlQuiet /\ CreateVolume_Check(p, r) /\ UNCHANGED <<histVars, nodeVars>>
    \/ \E p \in SeqProcs : \E r \in DeleteRequests :
          CtlQuiet /\ DeleteVolume_Load(p, r) /\ UNCHANGED <<histVars, nodeVars>>
    \/ \E p \in SeqProcs : \E r \in ValidateRequests :
          CtlQuiet /\ ValidateVolumeCapabilities(p, r) /\ UNCHANGED <<histVars, nodeVars>>
    \/ \E p \in SeqProcs : CtlStep(p)

\* the CreateVolumeRequests of the runs with crashes: well-formed, with no
\* capacity range or the smaller required size
PlainRequests == {r \in CreateRequests : /\ r.name # "" /\ ~r.capsNil /\ r.paramsOK
                                           /\ r.bytes < oneGB}

\* the CreateVolumeRequests of the concurrent runs: well-formed, no capacity range
RaceRequests == {[NoReq EXCEPT !.name = n] : n \in Names}

\* requests handled one at a time, the process may crash
CtlCrashNext ==
    \/ \E p \in SeqProcs : \E r \in PlainRequests :
          CtlQuiet /\ CreateVolume_Check(p, r) /\ UNCHANGED <<histVars, nodeVars>>
    \/ \E p \in SeqProcs : \E r \in DeleteRequests :
          CtlQuiet /\ DeleteVolume_Load(p, r) /\ UNCHANGED <<histVars, nodeVars>>
    \/ \E p \in SeqProcs : CtlStep(p)
    \/ CtlCrash /\ UNCHANGED <<histVars, nodeVars>>

\* requests handled concurrently on the goroutines of the gRPC server
CtlConcNext ==
    \/ \E p \in Procs : \E r \in RaceRequests :
          CreateVolume_Check(p, r) /\ UNCHANGED <<histVars, nodeVars>>
    \/ \E p \in Procs : \E r \in DeleteRequests :
          DeleteVolume_Load(p, r) /\ UNCHANGED <<histVars, nodeVars>>
    \/ \E p \in Procs : CtlStep(p)

\* ------------------------------------------------------------------------
\* Node server (package cephfs)
\* ------------------------------------------------------------------------

NoEnt == [ProvisionVolume |-> FALSE, cephAdminID |-> "none"]

NoNodeReq == [vol |-> "", provision |-> FALSE, valid |-> TRUE, attrsOK |-> TRUE,
              secretsOK |-> TRUE]

\* a goroutine of the node server that handles no request
IdleNode == [pc |-> "idle", op |-> "none", req |-> NoNodeReq, ent |-> NoEnt,
             res |-> NoRes, nMount |-> 0, nCreateUser |-> 0, nInsert |-> 0,
             retry |-> FALSE, removeErr |-> FALSE]

\* the staging path the orchestrator uses for a volume on this node
StagingPath(v) == <<"staging", v>>

\* the NodeStageVolumeRequests the orchestrator sends: the volume attributes
\* say whether the volume is provisioned dynamically, the secrets hold the
\* admin (or user) credentials or are malformed
StageRequests ==
    {[NoNodeReq EXCEPT !.vol = v, !.provision = d, !.secretsOK = s] :
        v \in Vols, d \in BOOLEAN, s \in BOOLEAN}
    \cup {[NoNodeReq EXCEPT !.vol = v, !.valid = FALSE] : v \in Vols}
    \cup {[NoNodeReq EXCEPT !.vol = v, !.attrsOK = FALSE] : v \in Vols}

\* the NodeUnstageVolumeRequests the orchestrator sends
UnstageRequests ==
    {[NoNodeReq EXCEPT !.vol = v] : v \in Vols}
    \cup {[NoNodeReq EXCEPT !.vol = v, !.valid = FALSE] : v \in Vols}

\* nodeCache.insert(volId, ent)
CacheInsert(cache, volId, ent) == (volId :> ent) @@ cache

\* the cache without the entry of volId, as nodeCache.pop leaves it
CacheRemove(cache, volId) == [v \in DOMAIN cache \ {volId} |-> cache[v]]

\* &nodeCacheEntry{volOptions: volOptions, cephAdminID: adminCr.id} for a
\* dynamically provisioned volume, &nodeCacheEntry{volOptions: volOptions}
\* for a pre-provisioned one
NewEntry(r) ==
    [ProvisionVolume |-> r.provision,
     cephAdminID |-> IF r.provision THEN AdminID ELSE ""]

\* if isMnt { return &csi.NodeStageVolumeResponse{}, nil }
StageShortCircuit_Never(isMnt) == FALSE

StageShortCircuit(isMnt) == isMnt

\* NodeStageVolume up to the mount-point probe: request validation, volume
\* options, createMountPoint, the ceph config file, isMountPoint.
NodeStageVolume_Probe(p, r) ==
    /\ nd[p].pc = "idle"
    /\ LET c == [IdleNode EXCEPT !.op = "stage", !.req = r]
           sp == StagingPath(r.vol)
       IN  IF ~r.valid
             THEN /\ nd' = [nd EXCEPT ![p] = [c EXCEPT !.pc = "done",
                               !.res = ErrRes("InvalidArgument", "validateNodeStageVolumeRequest")]]
                  /\ UNCHANGED dirs
           ELSE IF ~r.attrsOK
             THEN /\ nd' = [nd EXCEPT ![p] = [c EXCEPT !.pc = "done",
                               !.res = ErrRes("InvalidArgument", "newVolumeOptions")]]
                  /\ UNCHANGED dirs
           ELSE \E fail \in {"none", "createMountPoint", "writeToFile", "isMountPoint"} :
                  IF fail = "createMountPoint"
                    THEN /\ nd' = [nd EXCEPT ![p] = [c EXCEPT !.pc = "done",
                                      !.res = ErrRes("Internal", fail)]]
                         /\ UNCHANGED dirs
                  ELSE IF fail # "none"
                    THEN /\ nd' = [nd EXCEPT ![p] = [c EXCEPT !.pc = "done",
                                      !.res = ErrRes("Internal", fail)]]
                         /\ dirs' = dirs \cup {sp}
                  ELSE /\ dirs' = dirs \cup {sp}
                       /\ IF StageShortCircuit(sp \in mounted)
                            THEN nd' = [nd EXCEPT ![p] = [c EXCEPT !.pc = "done",
                                           !.res = OKRes(NoID, 0)]]
                            ELSE nd' = [nd EXCEPT ![p] = [c EXCEPT !.pc = "user"]]
    /\ UNCHANGED <<nodeCache, mounted, cephUsers>>

\* getOrCreateUser up to nodeCache.insert.  Dynamically provisioned:
\* getAdminCredentials, storeCephCredentials(admin), insert.  Pre-provisioned:
\* getUserCredentials, insert, storeCephCredentials(user).
getOrCreateUser_Insert(p) ==
    /\ nd[p].pc = "user"
    /\ LET r == nd[p].req
       IN  IF ~r.secretsOK
             THEN /\ nd' = [nd EXCEPT ![p] = [@ EXCEPT !.pc = "done",
                               !.res = ErrRes("Internal",
                                   IF r.provision THEN "getAdminCredentials"
                                                  ELSE "getUserCredentials")]]
                  /\ UNCHANGED nodeCache
           ELSE \E ioOK \in BOOLEAN :
                  IF r.provision
                    THEN IF ~ioOK
                           THEN /\ nd' = [nd EXCEPT ![p] = [@ EXCEPT !.pc = "done",
                                             !.res = ErrRes("Internal", "storeCephCredentials")]]
                                /\ UNCHANGED nodeCache
                           ELSE /\ nodeCache' = CacheInsert(nodeCache, r.vol, NewEntry(r))
                                /\ nd' = [nd EXCEPT ![p] = [@ EXCEPT !.pc = "createuser",
                                             !.nInsert = @ + 1]]
                    ELSE /\ nodeCache' = CacheInsert(nodeCache, r.vol, NewEntry(r))
                         /\ IF ~ioOK
                              THEN nd' = [nd EXCEPT ![p] = [@ EXCEPT !.pc = "done",
                                             !.nInsert = @ + 1,
                                             !.res = ErrRes("Internal", "storeCephCredentials")]]
                              ELSE nd' = [nd EXCEPT ![p] = [@ EXCEPT !.pc = "mount",
                                             !.nInsert = @ + 1]]
    /\ UNCHANGED <<mounted, dirs, cephUsers>>

\* getOrCreateUser from createCephUser on (dynamically provisioned volumes):
\* createCephUser, the volume root path, storeCephCredentials(user).
getOrCreateUser_CreateUser(p) ==
    /\ nd[p].pc = "createuser"
    /\ \E fail \in {"none", "createCephUser", "storeCephCredentials"} :
          IF fail = "createCephUser"
            THEN /\ nd' = [nd EXCEPT ![p] = [@ EXCEPT !.pc = "done",
                              !.res = ErrRes("Internal", fail)]]
                 /\ UNCHANGED cephUsers
            ELSE /\ cephUsers' = cephUsers \cup {nd[p].req.vol}
                 /\ IF fail = "none"
                      THEN nd' = [nd EXCEPT ![p] = [@ EXCEPT !.pc = "mount",
                                     !.nCreateUser = @ + 1]]
                      ELSE nd' = [nd EXCEPT ![p] = [@ EXCEPT !.pc = "done",
                                     !.nCreateUser = @ + 1,
                                     !.res = ErrRes("Internal", fail)]]
    /\ UNCHANGED <<nodeCache, mounted, dirs>>

\* m.mount(stagingTargetPath, cr, volOptions, volId); return
NodeStageVolume_Mount(p) ==
    /\ nd[p].pc = "mount"
    /\ \E mountOK \in BOOLEAN :
          IF mountOK
            THEN /\ mounted' = mounted \cup {StagingPath(nd[p].req.vol)}
                 /\ nd' = [nd EXCEPT ![p] = [@ EXCEPT !.pc = "done", !.nMount = @ + 1,
                              !.res = OKRes(NoID, 0)]]
            ELSE /\ UNCHANGED mounted
                 /\ nd' = [nd EXCEPT ![p] = [@ EXCEPT !.pc = "done",
                              !.res = ErrRes("Internal", "mount")]]
    /\ UNCHANGED <<nodeCache, dirs, cephUsers>>

\* NodeUnstageVolume up to os.Remove: request validation, unmountVolume (the
\* umount command fails on a path that is not a mount point), os.Remove of the
\* staging directory, whose error is dropped.
NodeUnstageVolume_Unmount(p, r) ==
    /\ nd[p].pc = "idle"
    /\ LET c == [IdleNode EXCEPT !.op = "unstage", !.req = r, !.retry = r.vol \in owed]
           sp == StagingPath(r.vol)
       IN  IF ~r.valid
             THEN /\ nd' = [nd EXCEPT ![p] = [c EXCEPT !.pc = "done",
                               !.res = ErrRes("InvalidArgument", "validateNodeUnstageVolumeRequest")]]
                  /\ UNCHANGED <<mounted, dirs>>
           ELSE \E umountOK \in BOOLEAN, removeOK \in BOOLEAN :
                  IF umountOK /\ sp \in mounted
                    THEN /\ mounted' = mounted \ {sp}
                         /\ dirs' = IF removeOK THEN dirs \ {sp} ELSE dirs
                         /\ nd' = [nd EXCEPT ![p] = [c EXCEPT !.pc = "pop"]]
                    ELSE /\ nd' = [nd EXCEPT ![p] = [c EXCEPT !.pc = "done",
                                      !.res = ErrRes("Internal", "unmountVolume")]]
                         /\ UNCHANGED <<mounted, dirs>>
    /\ UNCHANGED <<nodeCache, cephUsers>>

\* ent, err := nodeCache.pop(volId)
\* if err != nil { return nil, status.Error(codes.Internal, err.Error()) }
PopMissing_Tolerated == OKRes(NoID, 0)

PopMissing == ErrRes("Internal", "nodeCache.pop")

\* ent, err := nodeCache.pop(volId): a missing entry is an Internal error; a
\* pre-provisioned volume is done here.
NodeUnstageVolume_Pop(p) ==
    /\ nd[p].pc = "pop"
    /\ LET v == nd[p].req.vol
       IN  IF v \notin DOMAIN nodeCache
             THEN /\ nd' = [nd EXCEPT ![p] = [@ EXCEPT !.pc = "done",
                               !.res = PopMissing]]
                  /\ UNCHANGED nodeCache
             ELSE /\ nodeCache' = CacheRemove(nodeCache, v)
                  /\ IF nodeCache[v].ProvisionVolume
                       THEN nd' = [nd EXCEPT ![p] = [@ EXCEPT !.pc = "deluser",
                                      !.ent = nodeCache[v]]]
                       ELSE nd' = [nd EXCEPT ![p] = [@ EXCEPT !.pc = "done",
                                      !.ent = nodeCache[v], !.res = OKRes(NoID, 0)]]
    /\ UNCHANGED <<mounted, dirs, cephUsers>>

\* // Reinsert cache entry for retry
\* nodeCache.insert(volId, ent)
ReinsertOnFailure_Dropped(cache, volId, ent) == cache

ReinsertOnFailure(cache, volId, ent) == CacheInsert(cache, volId, ent)

\* deleteCephUser(&credentials{id: ent.cephAdminID}, volId): on failure the
\* entry is put back and the call fails.
NodeUnstageVolume_DeleteUser(p) ==
    /\ nd[p].pc = "deluser"
    /\ \E deleteOK \in BOOLEAN :
          IF deleteOK
            THEN /\ cephUsers' = cephUsers \ {nd[p].req.vol}
                 /\ nd' = [nd EXCEPT ![p] = [@ EXCEPT !.pc = "done", !.res = OKRes(NoID, 0)]]
                 /\ UNCHANGED nodeCache
            ELSE /\ nodeCache' = ReinsertOnFailure(nodeCache, nd[p].req.vol, nd[p].ent)
                 /\ nd' = [nd EXCEPT ![p] = [@ EXCEPT !.pc = "done",
                              !.res = ErrRes("Internal", "deleteCephUser")]]
                 /\ UNCHANGED cephUsers
    /\ UNCHANGED <<mounted, dirs>>

\* the response is sent; the goroutine is free for the next request
NodeRespond(p) ==
    /\ nd[p].pc = "done"
    /\ nd' = [nd EXCEPT ![p] = IdleNode]
    /\ UNCHANGED <<nodeCache, mounted, dirs, cephUsers>>

\* The node plugin process is started again: the requests in flight and the
\* node cache are lost; mounts, directories and ceph users stay.
NodeRestart ==
    /\ nodeCache # <<>> \/ \E p \in Procs : nd[p].pc # "idle"
    /\ nd' = [p \in Procs |-> IdleNode]
    /\ nodeCache' = <<>>
    /\ UNCHANGED <<mounted, dirs, cephUsers>>

NodeInit ==
    /\ nodeCache = <<>>
    /\ mounted = {}
    /\ dirs = {}
    /\ cephUsers = {}
    /\ nd = [p \in Procs |-> IdleNode]
    /\ owed = {}

\* no request is being handled on the node
NodeQuiet == \A q \in Procs : nd[q].pc = "idle"

\* history: a NodeStageVolume for the volume begins
NoteStage(r) == owed' = owed \ {r.vol}

\* history: NodeUnstageVolume failed at the deletion of the dedicated user
\* (a retry is owed), or succeeded
NoteUnstage(p) ==
    owed' = IF nd'[p].res.code = "OK" THEN owed \ {nd[p].req.vol}
            ELSE owed \cup {nd[p].req.vol}

NodeStep(p) ==
    \/ getOrCreateUser_Insert(p) /\ UNCHANGED <<owed, ctlVars, histVars>>
    \/ getOrCreateUser_CreateUser(p) /\ UNCHANGED <<owed, ctlVars, histVars>>
    \/ NodeStageVolume_Mount(p) /\ UNCHANGED <<owed, ctlVars, histVars>>
    \/ NodeUnstageVolume_Pop(p) /\ UNCHANGED <<owed, ctlVars, histVars>>
    \/ NodeUnstageVolume_DeleteUser(p) /\ NoteUnstage(p) /\ UNCHANGED <<ctlVars, histVars>>
    \/ NodeRespond(p) /\ UNCHANGED <<owed, ctlVars, histVars>>

\* node requests handled one at a time, in one process lifetime
NodeNext ==
    \/ \E p \in SeqProcs : \E r \in StageRequests :
          NodeQuiet /\ NodeStageVolume_Probe(p, r) /\ NoteStage(r)
                    /\ UNCHANGED <<ctlVars, histVars>>
    \/ \E p \in SeqProcs : \E r \in UnstageRequests :
          NodeQuiet /\ NodeUnstageVolume_Unmount(p, r)
                    /\ UNCHANGED <<owed, ctlVars, histVars>>
    \/ \E p \in SeqProcs : NodeStep(p)

\* the volume the concurrent node requests are about
RaceVol == "vol-1"

\* node requests for one volume handled concurrently on the goroutines of the
\* gRPC server
NodeConcNext ==
    \/ \E p \in Procs : \E r \in {x \in StageRequests : x.vol = RaceVol} :
          NodeStageVolume_Probe(p, r) /\ NoteStage(r) /\ UNCHANGED <<ctlVars, histVars>>
    \/ \E p \in Procs : \E r \in {x \in UnstageRequests : x.vol = RaceVol} :
          NodeUnstageVolume_Unmount(p, r) /\ UNCHANGED <<owed, ctlVars, histVars>>
    \/ \E p \in Procs : NodeStep(p)

\* node requests handled one at a time, the node plugin may be restarted
NodeRestartNext ==
    \/ NodeNext
    \/ NodeRestart /\ UNCHANGED <<owed, ctlVars, histVars>>

\* the target path the orchestrator publishes a volume at on this node
TargetPath(v) == <<"target", v>>

\* the NodePublishVolumeRequests / NodeUnpublishVolumeRequests the
\* orchestrator sends: staging path and target path of the volume
PublishRequests ==
    {[NoNodeReq EXCEPT !.vol = v] : v \in Vols}
    \cup {[NoNodeReq EXCEPT !.vol = v, !.valid = FALSE] : v \in Vols}

\* if isMnt { return &csi.NodePublishVolumeResponse{}, nil }
PublishShortCircuit(isMnt) == isMnt

\* NodePublishVolume up to the mount-point probe: request validation,
\* createMountPoint(targetPath), isMountPoint(targetPath).
NodePublishVolume_Probe(p, r) ==
    /\ nd[p].pc = "idle"
    /\ LET c == [IdleNode EXCEPT !.op = "publish", !.req = r]
           tp == TargetPath(r.vol)
       IN  IF ~r.valid
             THEN /\ nd' = [nd EXCEPT ![p] = [c EXCEPT !.pc = "done",
                               !.res = ErrRes("InvalidArgument", "validateNodePublishVolumeRequest")]]
                  /\ UNCHANGED dirs
           ELSE \E fail \in {"none", "createMountPoint", "isMountPoint"} :
                  IF fail = "createMountPoint"
                    THEN /\ nd' = [nd EXCEPT ![p] = [c EXCEPT !.pc = "done",
                                      !.res = ErrRes("Internal", fail)]]
                         /\ UNCHANGED dirs
                  ELSE IF fail # "none"
                    THEN /\ nd' = [nd EXCEPT ![p] = [c EXCEPT !.pc = "done",
                                      !.res = ErrRes("Internal", fail)]]
                         /\ dirs' = dirs \cup {tp}
                  ELSE /\ dirs' = dirs \cup {tp}
                       /\ IF PublishShortCircuit(tp \in mounted)
                            THEN nd' = [nd EXCEPT ![p] = [c EXCEPT !.pc = "done",
                                           !.res = OKRes(NoID, 0)]]
                            ELSE nd' = [nd EXCEPT ![p] = [c EXCEPT !.pc = "bind"]]
    /\ UNCHANGED <<nodeCache, mounted, cephUsers>>

\* bindMount(req.GetStagingTargetPath(), req.GetTargetPath(), readonly): the
\* bind mount of a directory; it needs the source directory to exist, not to
\* be a mount point.
NodePublishVolume_Bind(p) ==
    /\ nd[p].pc = "bind"
    /\ \E bindOK \in BOOLEAN :
          IF bindOK /\ StagingPath(nd[p].req.vol) \in dirs
            THEN /\ mounted' = mounted \cup {TargetPath(nd[p].req.vol)}
                 /\ nd' = [nd EXCEPT ![p] = [@ EXCEPT !.pc = "done", !.nMount = @ + 1,
                              !.res = OKRes(NoID, 0)]]
            ELSE /\ UNCHANGED mounted
                 /\ nd' = [nd EXCEPT ![p] = [@ EXCEPT !.pc = "done",
                              !.res = ErrRes("Internal", "bindMount")]]
    /\ UNCHANGED <<nodeCache, dirs, cephUsers>>

\* if err := unmountVolume(targetPath); err != nil { return Internal }
UnmountErrFatal_Ignored(err) == FALSE

UnmountErrFatal(err) == err

\* NodeUnpublishVolume: request validation, unmountVolume(targetPath) (the
\* umount command fails on a path that is not a mount point), os.Remove of
\* the target directory, whose error is dropped.
NodeUnpublishVolume(p, r) ==
    /\ nd[p].pc = "idle"
    /\ LET c == [IdleNode EXCEPT !.op = "unpublish", !.req = r]
           tp == TargetPath(r.vol)
       IN  IF ~r.valid
             THEN /\ nd' = [nd EXCEPT ![p] = [c EXCEPT !.pc = "done",
                               !.res = ErrRes("InvalidArgument", "validateNodeUnpublishVolumeRequest")]]
                  /\ UNCHANGED <<mounted, dirs>>
           ELSE \E umountOK \in BOOLEAN, removeOK \in BOOLEAN :
                  LET ok == umountOK /\ tp \in mounted
                  IN  /\ mounted' = IF ok THEN mounted \ {tp} ELSE mounted
                      /\ IF UnmountErrFatal(~ok)
                           THEN /\ nd' = [nd EXCEPT ![p] = [c EXCEPT !.pc = "done",
                                             !.res = ErrRes("Internal", "unmountVolume")]]
                                /\ UNCHANGED dirs
                           ELSE LET removed == removeOK /\ tp \in dirs /\ tp \notin mounted'
                                IN  /\ dirs' = IF removed THEN dirs \ {tp} ELSE dirs
                                    /\ nd' = [nd EXCEPT ![p] = [c EXCEPT !.pc = "done",
                                                 !.removeErr = ~removed,
                                                 !.res = OKRes(NoID, 0)]]
    /\ UNCHANGED <<nodeCache, cephUsers>>

\* node requests handled one at a time in one process lifetime, with the
\* publish and unpublish requests
NodePubNext ==
    \/ \E p \in SeqProcs : \E r \in StageRequests :
          NodeQuiet /\ NodeStageVolume_Probe(p, r) /\ NoteStage(r)
                    /\ UNCHANGED <<ctlVars, histVars>>
    \/ \E p \in SeqProcs : \E r \in UnstageRequests :
          NodeQuiet /\ NodeUnstageVolume_Unmount(p, r)
                    /\ UNCHANGED <<owed, ctlVars, histVars>>
    \/ \E p \in SeqProcs : \E r \in PublishRequests :
          NodeQuiet /\ NodePublishVolume_Probe(p, r)
                    /\ UNCHANGED <<owed, ctlVars, histVars>>
    \/ \E p \in SeqProcs :
          NodePublishVolume_Bind(p) /\ UNCHANGED <<owed, ctlVars, histVars>>
    \/ \E p \in SeqProcs : \E r \in PublishRequests :
          NodeQuiet /\ NodeUnpublishVolume(p, r)
                    /\ UNCHANGED <<owed, ctlVars, histVars>>
    \/ \E p \in SeqProcs : NodeStep(p)

vars == <<ctlVars, histVars, nodeVars>>

Init == CtlInit /\ NodeInit

Spec == Init /\ [][Next]_vars

CtlCrashSpec == Init /\ [][CtlCrashNext]_vars

CtlConcSpec == Init /\ [][CtlConcNext]_vars

NodeSpec == Init /\ [][NodeNext]_vars

NodeConcSpec == Init /\ [][NodeConcNext]_vars

NodeRestartSpec == Init /\ [][NodeRestartNext]_vars

NodePubSpec == Init /\ [][NodePubNext]_vars

CtlValSpec == Init /\ [][CtlValNext]_vars

\* ------------------------------------------------------------------------
\* Properties
\* ------------------------------------------------------------------------

\* C1 - Idempotent create.  A well-formed CreateVolume for a name whose volume
\* was returned by an earlier successful creation and has not been deleted,
\* with a required size not above that volume's size, returns in its first
\* step: success, the id and the capacity of the existing volume, no backend
\* image creation, index, store and images unchanged.
C1_IdempotentCreate ==
    [][\A p \in Procs :
         LET c == ctl'[p]
             n == c.req.name
         IN  (/\ ctl[p].pc = "idle"
              /\ c.op = "create"
              /\ ~c.req.capsNil
              /\ n \in Names
              /\ live[n] # NoVol
              /\ RequiredBytes(c.req) <= live[n].VolSize)
             => (/\ c.pc = "done"
                 /\ c.res = OKRes(live[n].VolID, live[n].VolSize)
                 /\ ~c.calledCreate
                 /\ rbdImages' = rbdImages
                 /\ rbdVolumes' = rbdVolumes
                 /\ volInfo' = volInfo)]_vars

\* C1 witness: a second CreateVolume with a smaller required size has returned
\* the volume of the first.
C1_Witness ==
    \E p \in Procs :
        /\ ctl[p].pc = "done" /\ ctl[p].op = "create"
        /\ ctl[p].res.code = "OK" /\ ctl[p].nIndex = 0
        /\ ctl[p].req.hasRange
        /\ live[ctl[p].req.name].VolID = ctl[p].res.id
        /\ RequiredBytes(ctl[p].req) < live[ctl[p].req.name].VolSize

\* goroutine p has passed the existence check and is at, or past, its call of
\* createRBDImage, and has not returned
AtImageCreation(p) ==
    /\ ctl[p].op = "create"
    /\ \/ ctl[p].pc = "create"
       \/ ctl[p].pc \in {"persist", "index"} /\ ctl[p].calledCreate

\* C2 - Concurrent create exclusion.  Two CreateVolume requests for the same
\* name that are in flight together never both pass the existence check and
\* both reach the backend image creation.
C2_CreateExclusion ==
    \A p, q \in Procs :
        (p # q /\ AtImageCreation(p) /\ AtImageCreation(q))
        => ctl[p].req.name # ctl[q].req.name

\* C3 - Node cache invariant.  Between requests the node cache holds an entry
\* for a volume exactly when the volume's staging path is mounted.
C3_CacheIffStaged ==
    NodeQuiet =>
        \A v \in Vols : (v \in DOMAIN nodeCache) <=> (StagingPath(v) \in mounted)

\* C4 - Reinsert on failed cleanup.  The entry NodeUnstageVolume holds for the
\* user deletion is the one it popped after the unmount; when the deletion of
\* the dedicated user fails the call returns Internal and the cache holds that
\* entry again under the volume ID.
C4_ReinsertOnFailedCleanup ==
    [][\A p \in Procs :
         LET v == nd[p].req.vol
         IN  /\ (nd[p].pc = "pop" /\ nd'[p].pc = "deluser")
                => (/\ nd'[p].ent = nodeCache[v]
                    /\ nd'[p].ent.ProvisionVolume
                    /\ v \notin DOMAIN nodeCache'
                    /\ StagingPath(v) \notin mounted)
             /\ (nd[p].pc = "deluser" /\ nd'[p].pc = "done" /\ nd'[p].res.code # "OK")
                => (/\ nd'[p].res.code = "Internal"
                    /\ v \in DOMAIN nodeCache'
                    /\ nodeCache'[v] = nd[p].ent
                    /\ nodeCache'[v].cephAdminID = AdminID)]_vars

\* C4 witness: an unstage has failed at the user deletion and the popped
\* entry is in the cache again, the staging path being unmounted.
C4_Witness ==
    \E p \in Procs :
        /\ nd[p].pc = "done" /\ nd[p].op = "unstage"
        /\ nd[p].res = ErrRes("Internal", "deleteCephUser")
        /\ nd[p].req.vol \in DOMAIN nodeCache
        /\ nodeCache[nd[p].req.vol] = nd[p].ent
        /\ StagingPath(nd[p].req.vol) \notin mounted

\* C5 - Unstage retry completes cleanup.  A NodeUnstageVolume retried after a
\* call that failed only at the user deletion fails only if the user deletion
\* fails again: otherwise it returns success.
C5_RetryCompletes ==
    \A p \in Procs :
        (/\ nd[p].pc = "done" /\ nd[p].op = "unstage"
         /\ nd[p].req.valid /\ nd[p].retry
         /\ nd[p].res.code # "OK")
        => nd[p].res.msg = "deleteCephUser"

\* the failures of NodeStageVolume before its mount-point probe has answered
ProbeFailures == {"createMountPoint", "writeToFile", "isMountPoint"}

\* C6 as stated - Stage idempotence.  A successful NodeStageVolume that mounts
\* has made one mount, one dedicated-user creation and one cache insertion and
\* leaves the staging path mounted; a well-formed NodeStageVolume that finds
\* the staging path mounted returns success in its first step and leaves the
\* mounts, the ceph users and the cache as they are.
C6_StageIdempotence ==
    [][\A p \in Procs :
         LET v == nd'[p].req.vol
         IN  /\ (nd[p].pc = "mount" /\ nd'[p].pc = "done" /\ nd'[p].res.code = "OK")
                => (/\ nd'[p].nMount = 1
                    /\ nd'[p].nCreateUser = 1
                    /\ nd'[p].nInsert = 1
                    /\ StagingPath(v) \in mounted')
             /\ (/\ nd[p].pc = "idle" /\ nd'[p].op = "stage"
                 /\ nd'[p].req.valid /\ nd'[p].req.attrsOK
                 /\ StagingPath(v) \in mounted)
                => (/\ nd'[p].pc = "done"
                    /\ nd'[p].res.code = "OK"
                    /\ mounted' = mounted
                    /\ cephUsers' = cephUsers
                    /\ nodeCache' = nodeCache)]_vars

\* C6 as amended - the dedicated user is created once for a dynamically
\* provisioned volume and not at all for a pre-provisioned one; the second
\* call returns success unless createMountPoint, the write of the ceph config
\* file or the mount-point probe fails, and mounts nothing, creates no user
\* and leaves the cache as it is either way.
C6_StageIdempotence_Amended ==
    [][\A p \in Procs :
         LET v == nd'[p].req.vol
         IN  /\ (nd[p].pc = "mount" /\ nd'[p].pc = "done" /\ nd'[p].res.code = "OK")
                => (/\ nd'[p].nMount = 1
                    /\ nd'[p].nCreateUser = (IF nd'[p].req.provision THEN 1 ELSE 0)
                    /\ nd'[p].nInsert = 1
                    /\ StagingPath(v) \in mounted')
             /\ (/\ nd[p].pc = "idle" /\ nd'[p].op = "stage"
                 /\ nd'[p].req.valid /\ nd'[p].req.attrsOK
                 /\ StagingPath(v) \in mounted)
                => (/\ nd'[p].pc = "done"
                    /\ \/ nd'[p].res.code = "OK"
                       \/ nd'[p].res.code = "Internal" /\ nd'[p].res.msg \in ProbeFailures
                    /\ nd'[p].nMount = 0 /\ nd'[p].nCreateUser = 0 /\ nd'[p].nInsert = 0
                    /\ mounted' = mounted
                    /\ cephUsers' = cephUsers
                    /\ nodeCache' = nodeCache)]_vars

\* C6 witness: a NodeStageVolume of a staged pre-provisioned volume has
\* returned success without mounting; no dedicated user exists.
C6_Witness ==
    \E p \in Procs :
        /\ nd[p].pc = "done" /\ nd[p].op = "stage"
        /\ nd[p].res.code = "OK" /\ nd[p].nMount = 0
        /\ StagingPath(nd[p].req.vol) \in mounted
        /\ nd[p].req.vol \in DOMAIN nodeCache
        /\ ~nodeCache[nd[p].req.vol].ProvisionVolume
        /\ nd[p].req.vol \notin cephUsers

\* C7 - Successful create is persisted.  A CreateVolume that has returned a
\* new volume has written the volume's record to the store and its entry to
\* the index, once each.
C7_CreatePersisted ==
    \A p \in Procs :
        (/\ ctl[p].pc = "done" /\ ctl[p].op = "create"
         /\ ctl[p].res.code = "OK" /\ ctl[p].nIndex > 0)
        => (/\ ctl[p].nPersist = 1
            /\ ctl[p].nIndex = 1
            /\ ctl[p].res.id \in DOMAIN volInfo
            /\ ctl[p].res.id \in DOMAIN rbdVolumes)

\* C8 - Delete ordering is crash-safe.  DeleteVolume removes the image while
\* record and index entry are there, the record only when the image is gone,
\* the index entry only when the record is gone; while a DeleteVolume is past
\* its load, and after any crash, the volume's record is not absent while its
\* image exists.
C8_DeleteOrder ==
    [][/\ \A n \in rbdImages :
            (n \notin rbdImages')
            => \E p \in Procs :
                  /\ ctl[p].pc = "rmimage" /\ ctl[p].rbdVol.VolName = n
                  /\ ctl[p].req.volumeId \in DOMAIN volInfo
                  /\ ctl[p].req.volumeId \in DOMAIN rbdVolumes
       /\ \A id \in DOMAIN volInfo :
            (id \notin DOMAIN volInfo') => (volInfo[id].VolName \notin rbdImages)
       /\ \A id \in DOMAIN rbdVolumes :
            (id \notin DOMAIN rbdVolumes') => (id \notin DOMAIN volInfo)
       /\ \A p \in Procs :
            (ctl'[p].op = "delete" /\ ctl'[p].pc \in {"rmimage", "rminfo", "rmindex"})
            => \/ ctl'[p].req.volumeId \in DOMAIN volInfo'
               \/ ctl'[p].rbdVol.VolName \notin rbdImages']_vars

\* C8 witness: between requests a record points at a deleted image (the
\* DeleteVolume crashed or failed after the image deletion).
C8_Witness ==
    /\ CtlQuiet
    /\ \E id \in DOMAIN volInfo :
          /\ volInfo[id].VolName \notin rbdImages
          /\ id \in DOMAIN rbdVolumes

\* C9 - Delete-then-create.  When DeleteVolume returns success neither store
\* nor index holds the id; a later well-formed CreateVolume with the name of
\* a deleted volume does not return an existing volume: it fails on its
\* parameters or takes an id never returned before, and when it returns
\* success it has created the backend image again.
C9_DeleteThenCreate ==
    [][\A p \in Procs :
         LET c == ctl'[p]
             n == c.req.name
         IN  /\ (ctl[p].pc = "rmindex" /\ c.pc = "done")
                => (/\ c.res.code = "OK"
                    /\ c.req.volumeId \notin DOMAIN volInfo'
                    /\ c.req.volumeId \notin DOMAIN rbdVolumes')
             /\ (/\ ctl[p].pc = "idle" /\ c.op = "create" /\ ~c.req.capsNil
                 /\ n \in deletedNames /\ live[n] = NoVol)
                => \/ c.pc = "done" /\ c.res.code = "InvalidArgument"
                   \/ /\ c.pc = "status"
                      /\ c.rbdVol.VolID \notin returned
                      /\ c.rbdVol.VolID \notin (DOMAIN rbdVolumes \cup DOMAIN volInfo)
             /\ (/\ ctl[p].pc = "index" /\ c.pc = "done"
                 /\ n \in deletedNames /\ live[n] = NoVol)
                => (/\ c.res.code = "OK"
                    /\ c.calledCreate
                    /\ c.res.id \notin returned)]_vars

\* C9 witness: a CreateVolume with the name of a deleted volume has returned a
\* new volume after creating the image; the deleted volume's id is in no map.
C9_Witness ==
    \E p \in Procs :
        /\ ctl[p].pc = "done" /\ ctl[p].op = "create"
        /\ ctl[p].res.code = "OK" /\ ctl[p].nIndex = 1 /\ ctl[p].calledCreate
        /\ ctl[p].req.name \in deletedNames
        /\ \E id \in returned :
              /\ id # ctl[p].res.id
              /\ id \notin DOMAIN rbdVolumes
              /\ id \notin DOMAIN volInfo

\* C10 - Shared maps are never updated speculatively.  A NodeStageVolume that
\* has failed at the creation of the dedicated user or at the mount has not
\* written to the node cache; a CreateVolume that has failed at the backend
\* image creation has not written to the index.
C10_NoSpeculativeWrite ==
    /\ \A p \in Procs :
          (/\ nd[p].pc = "done" /\ nd[p].op = "stage"
           /\ nd[p].res.code = "Internal"
           /\ nd[p].res.msg \in {"createCephUser", "mount"})
          => nd[p].nInsert = 0
    /\ \A p \in Procs :
          (/\ ctl[p].pc = "done" /\ ctl[p].op = "create"
           /\ ctl[p].res.code = "Internal")
          => ctl[p].nIndex = 0

\* goroutine p holds an entry of volume v that it popped and has neither
\* dropped nor put back: it is inside NodeUnstageVolume's pop ... reinsert
InPopReinsert(p, v) ==
    /\ nd[p].op = "unstage" /\ nd[p].pc = "deluser" /\ nd[p].req.vol = v

\* goroutine p is a NodeStageVolume of volume v that has inserted its entry
\* and has not returned from the mount
StageMounting(p, v) ==
    /\ nd[p].op = "stage" /\ nd[p].req.vol = v
    /\ nd[p].pc \in {"createuser", "mount"}

\* C11 - Stage/unstage do not interleave on the cache.  While a
\* NodeUnstageVolume is between its pop and its reinsert no NodeStageVolume
\* inserts an entry for the volume, so the reinsert finds no entry to
\* overwrite; and a pop does not take the entry of a NodeStageVolume that is
\* still mounting.
C11_NoInterleave ==
    [][\A p, q \in Procs : \A v \in Vols :
         /\ (p # q /\ InPopReinsert(q, v))
            => ~(nd[p].pc = "user" /\ nd[p].req.vol = v /\ nd'[p].nInsert > nd[p].nInsert)
         /\ (InPopReinsert(q, v) /\ nd'[q].pc = "done" /\ nd'[q].res.code # "OK")
            => v \notin DOMAIN nodeCache
         /\ (p # q /\ nd[q].pc = "pop" /\ nd[q].req.vol = v /\ nd'[q].pc # "pop"
             /\ v \in DOMAIN nodeCache)
            => ~StageMounting(p, v)]_vars

\* C12 - Conflicting create.  A well-formed CreateVolume for a name whose
\* volume exists, with a required size above that volume's size, returns
\* AlreadyExists in its first step: no backend call, no volume ID taken, index,
\* store and images unchanged.
C12_ConflictingCreate ==
    [][\A p \in Procs :
         LET c == ctl'[p]
             n == c.req.name
         IN  (/\ ctl[p].pc = "idle"
              /\ c.op = "create"
              /\ ~c.req.capsNil
              /\ n \in Names
              /\ live[n] # NoVol
              /\ live[n] \in VolumesByName(n)
              /\ RequiredBytes(c.req) > live[n].VolSize)
             => (/\ c.pc = "done"
                 /\ c.res.code = "AlreadyExists"
                 /\ c.res.id = NoID
                 /\ ~c.calledCreate
                 /\ c.rbdVol = NoVol
                 /\ nextUUID' = nextUUID
                 /\ rbdImages' = rbdImages
                 /\ rbdVolumes' = rbdVolumes
                 /\ volInfo' = volInfo)]_vars

\* C12 witness: a CreateVolume asking for more than the size of the existing
\* volume of its name has returned AlreadyExists.
C12_Witness ==
    \E p \in Procs :
        /\ ctl[p].pc = "done" /\ ctl[p].op = "create"
        /\ ctl[p].res.code = "AlreadyExists"
        /\ live[ctl[p].req.name] # NoVol
        /\ RequiredBytes(ctl[p].req) > live[ctl[p].req.name].VolSize
        /\ live[ctl[p].req.name].VolID \in DOMAIN rbdVolumes
        /\ ctl[p].rbdVol = NoVol /\ ~ctl[p].calledCreate

\* C13 - Unstage without a cache entry.  A well-formed NodeUnstageVolume for a
\* volume that has no entry in the node cache fails with Internal, at the
\* unmount or at the pop; it does not reach the deletion of the dedicated
\* user and leaves cache and ceph users as they are.  This is so for every
\* such call, the first and its repetitions.
C13_UnstageNoEntry ==
    [][\A p \in Procs :
         LET v == nd'[p].req.vol
         IN  /\ (/\ nd[p].pc = "idle" /\ nd'[p].op = "unstage"
                 /\ nd'[p].req.valid /\ v \notin DOMAIN nodeCache)
                => (/\ \/ nd'[p].pc = "pop"
                       \/ nd'[p].pc = "done" /\ nd'[p].res.code = "Internal"
                    /\ nodeCache' = nodeCache
                    /\ cephUsers' = cephUsers)
             /\ (nd[p].pc = "pop" /\ nd'[p].op = "unstage" /\ v \notin DOMAIN nodeCache)
                => (/\ nd'[p].pc = "done"
                    /\ nd'[p].res.code = "Internal"
                    /\ nodeCache' = nodeCache
                    /\ cephUsers' = cephUsers)]_vars

\* C13 witness: after a restart of the node plugin the staging mount of a
\* dynamically provisioned volume was unmounted by a NodeUnstageVolume that
\* failed at the pop: no entry, the dedicated user is still there.
C13_Witness ==
    \E p \in Procs :
        /\ nd[p].pc = "done" /\ nd[p].op = "unstage"
        /\ nd[p].res = ErrRes("Internal", "nodeCache.pop")
        /\ nd[p].req.vol \notin DOMAIN nodeCache
        /\ StagingPath(nd[p].req.vol) \notin mounted
        /\ nd[p].req.vol \in cephUsers

\* C14 - Delete of an unknown volume.  A DeleteVolume for a volume ID that has
\* no persisted record returns Internal in its first step: no backend image
\* deletion, store, index and images unchanged.  So it is for a DeleteVolume
\* that repeats a successful one.
C14_DeleteUnknown ==
    [][\A p \in Procs :
         LET c == ctl'[p]
         IN  (/\ ctl[p].pc = "idle"
              /\ c.op = "delete"
              /\ c.req.volumeId \notin DOMAIN volInfo)
             => (/\ c.pc = "done"
                 /\ c.res.code = "Internal"
                 /\ rbdImages' = rbdImages
                 /\ volInfo' = volInfo
                 /\ rbdVolumes' = rbdVolumes)]_vars

\* C14 witness: a DeleteVolume for a volume that was created and then deleted
\* has failed at the load of the record.
C14_Witness ==
    \E p \in Procs :
        /\ ctl[p].pc = "done" /\ ctl[p].op = "delete"
        /\ ctl[p].res = ErrRes("Internal", "loadVolInfo")
        /\ ctl[p].req.volumeId \in returned
        /\ ctl[p].req.volumeId \notin DOMAIN volInfo
        /\ ctl[p].req.volumeId \notin DOMAIN rbdVolumes
        /\ deletedNames # {}

\* the state of volume v on this node, read from the mount table: Published
\* has the staging mount under the bind mount
VolState(mnt, v) ==
    IF TargetPath(v) \in mnt
      THEN IF StagingPath(v) \in mnt THEN "Published" ELSE "PublishedUnstaged"
      ELSE IF StagingPath(v) \in mnt THEN "Staged" ELSE "Unstaged"

\* the moves of Unstaged -> Staged -> Published -> Staged -> Unstaged
LifecycleMoves ==
    {<<"Unstaged", "Staged">>, <<"Staged", "Published">>,
     <<"Published", "Staged">>, <<"Staged", "Unstaged">>}

\* C15 - Per-(node, volume) state machine.  Every step of a node RPC leaves a
\* volume's state as it is or moves it along Unstaged -> Staged -> Published
\* -> Staged -> Unstaged: no NodePublishVolume publishes a volume that is not
\* staged, no NodeUnstageVolume unstages a volume that is published.
C15_Lifecycle ==
    [][\A v \in Vols :
         \/ VolState(mounted', v) = VolState(mounted, v)
         \/ <<VolState(mounted, v), VolState(mounted', v)>> \in LifecycleMoves]_vars

\* goroutine p returns from a well-formed NodeUnpublishVolume in this step
UnpublishReturns(p) ==
    /\ nd[p].pc = "idle" /\ nd'[p].op = "unpublish" /\ nd'[p].req.valid

\* C16 as stated - Publish/unpublish round trip.  A NodeUnpublishVolume of a
\* published target path that returns success leaves the path unmounted and
\* its directory removed, the staging mount as it was; a call whose unmount
\* succeeds returns success whatever the removal of the directory does; a
\* call whose unmount fails returns Internal and leaves the directory.
C16_RoundTrip ==
    [][\A p \in Procs :
         LET v == nd'[p].req.vol
             tp == TargetPath(v)
         IN  UnpublishReturns(p) =>
               /\ (tp \in mounted /\ nd'[p].res.code = "OK")
                  => (/\ tp \notin mounted'
                      /\ tp \notin dirs'
                      /\ (StagingPath(v) \in mounted') = (StagingPath(v) \in mounted))
               /\ (tp \in mounted /\ tp \notin mounted') => nd'[p].res.code = "OK"
               /\ (tp \in mounted') => (/\ nd'[p].res.code = "Internal"
                                        /\ dirs' = dirs
                                        /\ mounted' = mounted)]_vars

\* C16 as amended - the directory is gone when its removal succeeded; when
\* the removal failed the call still returns success and the directory stays.
C16_RoundTrip_Amended ==
    [][\A p \in Procs :
         LET v == nd'[p].req.vol
             tp == TargetPath(v)
         IN  UnpublishReturns(p) =>
               /\ (tp \in mounted /\ nd'[p].res.code = "OK")
                  => (/\ tp \notin mounted'
                      /\ (tp \in dirs') = nd'[p].removeErr
                      /\ dirs' \subseteq dirs
                      /\ (StagingPath(v) \in mounted') = (StagingPath(v) \in mounted))
               /\ (tp \in mounted /\ tp \notin mounted') => nd'[p].res.code = "OK"
               /\ (tp \in mounted') => (/\ nd'[p].res.code = "Internal"
                                        /\ dirs' = dirs
                                        /\ mounted' = mounted)]_vars

\* C16 witness: a NodeUnpublishVolume of a published volume has returned
\* success; the target path is no mount point and has no directory, the
\* staging path is mounted.
C16_Witness ==
    \E p \in Procs :
        /\ nd[p].pc = "done" /\ nd[p].op = "unpublish"
        /\ nd[p].res.code = "OK" /\ ~nd[p].removeErr
        /\ TargetPath(nd[p].req.vol) \notin mounted
        /\ TargetPath(nd[p].req.vol) \notin dirs
        /\ StagingPath(nd[p].req.vol) \in mounted

\* C17 - Capability validation.  ValidateVolumeCapabilities answers in one
\* step, with no error; supported is true exactly when every capability of
\* the list has the access mode single-node-writer (so for the empty list);
\* index, store, images and the UUID source are unchanged.
C17_ValidateCapabilities ==
    [][\A p \in Procs :
         LET c == ctl'[p]
         IN  (ctl[p].pc = "idle" /\ c.op = "validate")
             => (/\ c.pc = "done"
                 /\ c.res.code = "OK"
                 /\ c.supported
                      = (\A i \in 1..Len(c.req.caps) : c.req.caps[i] = "SINGLE_NODE_WRITER")
                 /\ rbdVolumes' = rbdVolumes
                 /\ volInfo' = volInfo
                 /\ rbdImages' = rbdImages
                 /\ nextUUID' = nextUUID)]_vars

\* C17 witness: a list whose first capability is single-node-writer and whose
\* last is not has been answered with supported = false, volumes existing.
C17_Witness ==
    \E p \in Procs :
        /\ ctl[p].pc = "done" /\ ctl[p].op = "validate"
        /\ Len(ctl[p].req.caps) = MaxCaps
        /\ ctl[p].req.caps[1] = "SINGLE_NODE_WRITER"
        /\ ctl[p].req.caps[MaxCaps] = "SINGLE_NODE_READER_ONLY"
        /\ ~ctl[p].supported
        /\ ctl[p].res.code = "OK"
        /\ rbdVolumes # <<>>

\* C18 - Lazy image creation across a crash.  createRBDImage is called only
\* after a probe that reported no image; a CreateVolume that comes to the
\* probe while an image of its name exists (left by a creation that crashed
\* before its record was persisted) finds it and creates nothing; when such a
\* call returns success it has persisted its record; an image is created only
\* under a name that has none.
C18_LazyCreate ==
    [][\A p \in Procs :
         LET n == ctl[p].rbdVol.VolName
         IN  /\ (ctl[p].pc = "create" /\ ctl'[p].pc # "create" /\ ctl'[p].op = "create")
                => (~ctl[p].found /\ n \notin rbdImages)
             /\ (ctl[p].pc = "status" /\ ctl'[p].op = "create" /\ n \in rbdImages)
                => (ctl'[p].pc = "persist" /\ ctl'[p].found)
             /\ (/\ ctl[p].pc = "index" /\ ctl'[p].pc = "done"
                 /\ ctl[p].found /\ ctl'[p].res.code = "OK")
                => (/\ ~ctl'[p].calledCreate
                    /\ ctl'[p].nPersist = 1
                    /\ ctl'[p].res.id \in DOMAIN volInfo')]_vars

\* C19 - Index mirrors the store.  Whenever no controller request is in
\* progress the volume IDs of the in-memory index are the volume IDs that
\* have a persisted record.
C19_IndexMirrorsStore ==
    CtlQuiet => DOMAIN rbdVolumes = DOMAIN volInfo

\* C20 - No leaked dedicated user.  When a NodeUnstageVolume has returned
\* success no dedicated user of its volume exists and the cache holds no
\* entry for the volume; the deletion of the dedicated user is reached only
\* with a popped entry that says dynamically provisioned.
C20_NoLeakedUser ==
    \A p \in Procs :
        /\ (nd[p].pc = "done" /\ nd[p].op = "unstage" /\ nd[p].res.code = "OK")
           => (/\ nd[p].req.vol \notin cephUsers
               /\ nd[p].req.vol \notin DOMAIN nodeCache)
        /\ (nd[p].pc = "deluser") => nd[p].ent.ProvisionVolume

====
